---- MODULE Spec2Model ----
(***************************************************************************)
(* cachetop: the monitor loop of LVMCacheMonitor (poll, append to the      *)
(* rolling histories, render, sleep), its interrupt handling, and the pure *)
(* functions it renders with (metric derivation, bar graphs).              *)
(*                                                                         *)
(* Numbers.  The percentages and the bar proportions of the program are    *)
(* Python floats (IEEE binary64).  They are modelled as such: a            *)
(* significand of 53 bits and an exponent, with division, multiplication   *)
(* by an integer and int() rounding as binary64 does.  Only the            *)
(* non-negative floats occur, since the counters are non-negative.         *)
(***************************************************************************)
EXTENDS Integers, Sequences, FiniteSets, TLC

VARIABLES
    pc,                       \* position of the process in run()
    idx,                      \* append being done / next line of the frame
    max_history,              \* self.max_history
    cache_usage_history,      \* the five deques
    hit_ratio_history,
    dirty_ratio_history,
    read_hit_ratio_history,
    write_hit_ratio_history,
    stats,                    \* the local 'stats' of run()
    ticks,                    \* polls done so far
    arrived,                  \* history variable: every available sample, in order
    screen,                   \* lines on the terminal since the last clear
    frame,                    \* lines written by the latest display_stats call
    interrupted,              \* a KeyboardInterrupt was delivered
    interruptedAt,            \* history variable: pc at which it was delivered
    raised,                   \* the exception that left run(), if any
    exitCode,                 \* exit status of the process (-1: still running)
    columns,                  \* columns of the terminal, as the operator sets them
    resized,                  \* the operator resized the terminal
    terminal_width,           \* self.terminal_width
    widths,                   \* the local 'widths' of display_stats
    chart_lines,              \* width of the rows create_line_graph last returned
    graph_width,              \* the local 'graph_width' of display_stats
    drawn,                    \* history variable: width each line of 'frame' was drawn with
    call,                     \* function harness: the call made
    ret                       \* function harness: what it returned

loopVars == <<pc, idx, max_history, cache_usage_history, hit_ratio_history,
              dirty_ratio_history, read_hit_ratio_history,
              write_hit_ratio_history, stats, ticks, arrived, screen, frame,
              interrupted, interruptedAt, raised, exitCode, columns, resized,
              terminal_width, widths, chart_lines, graph_width, drawn>>
layoutVars == <<columns, resized, terminal_width, widths, chart_lines,
                graph_width, drawn>>
fnVars == <<call, ret>>
vars == <<pc, idx, max_history, cache_usage_history, hit_ratio_history,
          dirty_ratio_history, read_hit_ratio_history,
          write_hit_ratio_history, stats, ticks, arrived, screen, frame,
          interrupted, interruptedAt, raised, exitCode, columns, resized,
          terminal_width, widths, chart_lines, graph_width, drawn, call, ret>>

----------------------------------------------------------------------------
(* Bounds *)

MaxTicks == 3
MaxHistory == 2
MaxCount == 2
MaxPool == 5
MaxWide == 22
MaxValue == 22
MaxWidth == 22
MaxBlocks == 3
MaxColumns == 82
MaxLen == 4
MaxChart == 4
MaxHeight == 23

----------------------------------------------------------------------------
(* Numbers *)

Min(a, b) == IF a < b THEN a ELSE b
Max(a, b) == IF a > b THEN a ELSE b

\* Python str * n: n copies, none when n <= 0.
Rep(glyph, n) == [i \in 1..n |-> glyph]

----------------------------------------------------------------------------
(* binary64 arithmetic on the non-negative floats *)

\* A float is zero or positive here.  Its 53-bit significand is kept in
\* three pieces, hi (13 bits, the top one set), mid and lo (20 bits each):
\* the float is (hi * 2^40 + mid * 2^20 + lo) * 2^(exp - 52).
FZero == [hi |-> 0, mid |-> 0, lo |-> 0, exp |-> 0]

\* the number of binary digits of n (0 <= n < 2^30)
BitLen(n) == CHOOSE k \in 0..30 : n < 2^k /\ (k = 0 \/ 2^(k - 1) <= n)

\* Round to nearest, ties to even: the exact value is the significand
\* (hi, mid, lo) followed by the bit guard and by something non-zero iff
\* sticky.
Round(hi, mid, lo, guard, sticky, exp) ==
    LET up == guard = 1 /\ (sticky \/ lo % 2 = 1)
        lo1 == IF up THEN lo + 1 ELSE lo
        mid1 == mid + lo1 \div 2^20
        hi1 == hi + mid1 \div 2^20
    IN  IF hi1 = 2^13
        THEN [hi |-> 2^12, mid |-> 0, lo |-> 0, exp |-> exp + 1]
        ELSE [hi |-> hi1, mid |-> mid1 % 2^20, lo |-> lo1 % 2^20,
              exp |-> exp]

\* n / d for naturals n and d > 0 (below 2^14): the float nearest to the
\* quotient.  With nn / dd = n / d * 2^(up - down) in [1, 2), the
\* significand is the long division of nn * 2^52 by dd, 12, 10, 10, 10, 10
\* and 1 bits at a time.
FDiv(n, d) ==
    IF n = 0 THEN FZero
    ELSE LET down == IF n < d THEN 0
                     ELSE CHOOSE s \in 0..14 :
                              d * 2^s <= n /\ n < d * 2^(s + 1)
             up == IF n >= d THEN 0
                   ELSE CHOOSE s \in 1..14 :
                            n * 2^s >= d /\ n * 2^(s - 1) < d
             nn == n * 2^up
             dd == d * 2^down
             hi == (nn * 2^12) \div dd
             r0 == (nn * 2^12) % dd
             m1 == (r0 * 2^10) \div dd
             r1 == (r0 * 2^10) % dd
             m2 == (r1 * 2^10) \div dd
             r2 == (r1 * 2^10) % dd
             l1 == (r2 * 2^10) \div dd
             r3 == (r2 * 2^10) % dd
             l2 == (r3 * 2^10) \div dd
             r4 == (r3 * 2^10) % dd
         IN  Round(hi, m1 * 2^10 + m2, l1 * 2^10 + l2,
                   (r4 * 2) \div dd, (r4 * 2) % dd # 0, down - up)

\* f * u for a float f and a natural u below 2^11: the float nearest to
\* the product.  The three pieces are multiplied with carries, and the
\* product is shifted right by the s bits it has too many.
FMulInt(f, u) ==
    IF f = FZero \/ u = 0 THEN FZero
    ELSE LET cu == f.lo * u
             bu == f.mid * u + cu \div 2^20
             au == f.hi * u + bu \div 2^20
             bl == bu % 2^20
             cl == cu % 2^20
             s == BitLen(au) - 13
             out == cl % 2^s
         IN  IF s = 0 THEN [hi |-> au, mid |-> bl, lo |-> cl, exp |-> f.exp]
             ELSE Round(au \div 2^s,
                        (au % 2^s) * 2^(20 - s) + bl \div 2^s,
                        (bl % 2^s) * 2^(20 - s) + cl \div 2^s,
                        out \div 2^(s - 1), out % 2^(s - 1) # 0,
                        f.exp + s)

\* int(f): the integer part (f below 2^30)
FTrunc(f) ==
    IF f = FZero \/ f.exp < 0 THEN 0
    ELSE IF f.exp <= 12 THEN f.hi \div 2^(12 - f.exp)
    ELSE f.hi * 2^(f.exp - 12) + f.mid \div 2^(32 - f.exp)

\* f has no fractional part (f below 2^30)
FIsInteger(f) ==
    \/ f = FZero
    \/ f.exp >= 0 /\ f.exp <= 12
          /\ f.hi % 2^(12 - f.exp) = 0 /\ f.mid = 0 /\ f.lo = 0
    \/ f.exp > 12 /\ f.mid % 2^(32 - f.exp) = 0 /\ f.lo = 0

\* f <= n and f >= n for a natural n
FLeq(f, n) == FTrunc(f) < n \/ (FTrunc(f) = n /\ FIsInteger(f))
FGeq(f, n) == FTrunc(f) >= n

\* (part / whole * 100) if whole > 0 else 0
Pct(part, whole) ==
    IF whole > 0 THEN FMulInt(FDiv(part, whole), 100) ELSE FZero

InRange0To100(p) == FGeq(p, 0) /\ FLeq(p, 100)
IsZero(p) == p = FZero

----------------------------------------------------------------------------
(* get_lvm_cache_stats: the derivation of the metrics from the counters *)

None == [kind |-> "None"]

RawSample(tb, ub, db, rh, rm, wh, wm, pool) ==
    [total_blocks |-> tb, used_blocks |-> ub, dirty_blocks |-> db,
     read_hits |-> rh, read_misses |-> rm, write_hits |-> wh,
     write_misses |-> wm, pool_size_bytes |-> pool]

block_size_NoFallback(raw) ==
    IF raw.total_blocks > 0 THEN raw.pool_size_bytes \div raw.total_blocks
                            ELSE 0
block_size(raw) ==
    IF raw.total_blocks > 0 THEN raw.pool_size_bytes \div raw.total_blocks
                            ELSE 4096

total_reads(raw) == raw.read_hits + raw.read_misses
total_writes(raw) == raw.write_hits + raw.write_misses
total_ops_ReadsOnly(raw) == total_reads(raw)
total_ops(raw) == total_reads(raw) + total_writes(raw)

\* read_weight: total_reads / total_ops, or 0.5
read_weight(raw) ==
    IF total_ops(raw) > 0 THEN FDiv(total_reads(raw), total_ops(raw))
                          ELSE FDiv(1, 2)

\* int(used_blocks * read_weight)
estimated_read_blocks_WriteWeight(raw) ==
    FTrunc(FMulInt(IF total_ops(raw) > 0
                   THEN FDiv(total_writes(raw), total_ops(raw))
                   ELSE FDiv(1, 2),
                   raw.used_blocks))
estimated_read_blocks(raw) == FTrunc(FMulInt(read_weight(raw), raw.used_blocks))

estimated_write_blocks(raw) == raw.used_blocks - estimated_read_blocks(raw)

\* The dictionary returned for a parsed sample (lines 157-177).
Derive(raw) ==
    [kind |-> "stats",
     total_blocks |-> raw.total_blocks,
     used_blocks |-> raw.used_blocks,
     dirty_blocks |-> raw.dirty_blocks,
     cache_usage_pct |-> Pct(raw.used_blocks, raw.total_blocks),
     dirty_ratio_pct |-> Pct(raw.dirty_blocks, raw.total_blocks),
     hit_ratio_pct |-> Pct(raw.read_hits + raw.write_hits, total_ops(raw)),
     read_hit_ratio_pct |-> Pct(raw.read_hits, total_reads(raw)),
     write_hit_ratio_pct |-> Pct(raw.write_hits, total_writes(raw)),
     read_hits |-> raw.read_hits,
     read_misses |-> raw.read_misses,
     write_hits |-> raw.write_hits,
     write_misses |-> raw.write_misses,
     total_reads |-> total_reads(raw),
     total_writes |-> total_writes(raw),
     total_ops |-> total_ops(raw),
     block_size |-> block_size(raw),
     pool_size_bytes |-> raw.pool_size_bytes,
     estimated_read_blocks |-> estimated_read_blocks(raw),
     estimated_write_blocks |-> estimated_write_blocks(raw)]

\* What the two lvs commands of one poll can do.
Outcomes == {"sudo_not_started", "pool_exit_nonzero", "pool_not_numeric",
             "stats_exit_nonzero", "stats_empty", "stats_short",
             "stats_not_numeric", "ok"}

\* get_lvm_cache_stats on one outcome: the value returned, or the exception
\* that escapes.  CalledProcessError, ValueError and IndexError are caught
\* (line 178); a command that cannot be started raises FileNotFoundError,
\* an OSError, which is not.  Fewer than 7 values falls off the end of the
\* function, which returns None.
get_lvm_cache_stats(outcome, raw) ==
    CASE outcome = "sudo_not_started" ->
            [raises |-> "FileNotFoundError", value |-> None]
      [] outcome = "ok" -> [raises |-> "none", value |-> Derive(raw)]
      [] OTHER -> [raises |-> "none", value |-> None]

\* Python truth of the value of get_lvm_cache_stats: None is false, the
\* (never empty) dictionary is true.
Truthy(s) == s # None

----------------------------------------------------------------------------
(* get_dynamic_widths *)

\* lines 73-75 and 81-82
label_space == 20
percentage_space == 8
margin == 4
graph_label_space == 8
graph_margin == 4

\* The dict of lines 77-90 when update_terminal_size (line 69) has just
\* read 'size' columns into self.terminal_width.
get_dynamic_widths_NoFloor(size) ==
    [bar_width |-> size - label_space - percentage_space - margin,
     graph_width |-> size - graph_label_space - graph_margin,
     terminal_width |-> size]
get_dynamic_widths(size) ==
    [bar_width |-> Max(20, size - label_space - percentage_space - margin),
     graph_width |-> Max(30, size - graph_label_space - graph_margin),
     terminal_width |-> size]

----------------------------------------------------------------------------
(* create_bar_graph and create_dual_cache_bar *)

\* filled, lines 186-189
BarFilled(value, max_value, width) ==
    IF max_value = 0 THEN 0
    ELSE FTrunc(FMulInt(FDiv(value, max_value), width))

\* the bar of line 191, without the colour codes
create_bar_graph_Swapped(value, max_value, width) ==
    Rep("empty", BarFilled(value, max_value, width))
        \o Rep("solid", width - BarFilled(value, max_value, width))
create_bar_graph(value, max_value, width) ==
    Rep("solid", BarFilled(value, max_value, width))
        \o Rep("empty", width - BarFilled(value, max_value, width))

\* read_portion and write_portion after the correction of lines 206-216
DualPortions(read_blocks, write_blocks, total_blocks, width) ==
    LET read_portion == FTrunc(FMulInt(FDiv(read_blocks, total_blocks), width))
        write_portion == FTrunc(FMulInt(FDiv(write_blocks, total_blocks), width))
    IN  IF read_portion + write_portion > width
        THEN IF read_portion >= write_portion
             THEN [read |-> width - write_portion, write |-> write_portion]
             ELSE [read |-> read_portion, write |-> width - read_portion]
        ELSE [read |-> read_portion, write |-> write_portion]

\* the bar of lines 202-229, without the colour codes
create_dual_cache_bar(read_blocks, write_blocks, total_blocks, width) ==
    IF total_blocks = 0
    THEN Rep("empty", width)
    ELSE LET p == DualPortions(read_blocks, write_blocks, total_blocks, width)
         IN  Rep("read", p.read) \o Rep("write", p.write)
                 \o Rep("empty", width - (p.read + p.write))

Count(bar, glyph) == Cardinality({i \in 1..Len(bar) : bar[i] = glyph})

----------------------------------------------------------------------------
(* create_line_graph *)

\* min(data) and max(data), lines 240-241
min_val(data) ==
    CHOOSE m \in {data[i] : i \in 1..Len(data)} :
        \A i \in 1..Len(data) : m <= data[i]
max_val(data) ==
    CHOOSE m \in {data[i] : i \in 1..Len(data)} :
        \A i \in 1..Len(data) : m >= data[i]

\* line 242
range_val(data) ==
    IF max_val(data) # min_val(data) THEN max_val(data) - min_val(data)
    ELSE 1

\* data[-width:], line 246: the last width values, and the whole list when
\* width = 0 (data[-0:] is data[0:]).
LastValues_Oldest(data, width) ==
    IF width = 0 THEN data ELSE SubSeq(data, 1, Min(Len(data), width))
LastValues(data, width) ==
    IF width = 0 THEN data
    ELSE SubSeq(data, Max(1, Len(data) - width + 1), Len(data))

\* y of lines 252-253, rows counted from 0 at the top
GraphRow(value, lowest, range, height) ==
    Max(0, Min(height - 1,
               height - 1
                 - FTrunc(FMulInt(FDiv(value - lowest, range), height - 1))))

\* The rows of lines 236-260, top row first: height empty strings for fewer
\* than two values; otherwise rows of width cells, where the loop of line
\* 246 puts one glyph in column x, on row y, for the x-th of the values
\* shown and stops at the first x >= width.
create_line_graph(data, width, height) ==
    IF Len(data) < 2
    THEN Rep(<<>>, height)
    ELSE LET shown == LastValues(data, width)
             lowest == min_val(data)
             range == range_val(data)
             glyphs == {<<GraphRow(shown[x], lowest, range, height), x>> :
                           x \in 1..Min(Len(shown), width)}
         IN  [r \in 1..height |->
                 [x \in 1..width |->
                     IF <<r - 1, x>> \in glyphs THEN "dot" ELSE "blank"]]

----------------------------------------------------------------------------
(* Function harness: each pure function applied to every input in bounds *)

Counts == 0..MaxCount

NotReturned == [done |-> FALSE]
Returned(v) == [done |-> TRUE, value |-> v]

\* No call: the harness is idle while the monitor loop runs.
FnIdle == /\ call = [fn |-> "none"]
          /\ ret = NotReturned

\* Samples: every combination of small counters; every small pool size
\* and number of blocks; and a wider range of used blocks, reads and writes.
GridSamples ==
    {RawSample(tb, ub, db, rh, rm, wh, wm, 0) :
         tb \in Counts, ub \in Counts, db \in Counts, rh \in Counts,
         rm \in Counts, wh \in Counts, wm \in Counts}
PoolSamples ==
    {RawSample(tb, 0, 0, 0, 0, 0, 0, pool) :
         tb \in Counts, pool \in 0..MaxPool}
WideSamples ==
    {RawSample(0, ub, 0, rh, 0, 0, wm, 0) :
         ub \in 0..MaxWide, rh \in 0..MaxWide, wm \in 0..MaxWide}

DeriveCalls ==
    {[fn |-> "get_lvm_cache_stats", raw |-> raw] :
         raw \in GridSamples \cup PoolSamples \cup WideSamples}

BarCalls ==
    {[fn |-> "create_bar_graph", value |-> value, max_value |-> max_value,
      width |-> width] :
         value \in 0..MaxValue, max_value \in 0..MaxValue,
         width \in 0..MaxWidth}

DualCalls ==
    {[fn |-> "create_dual_cache_bar", read_blocks |-> read_blocks,
      write_blocks |-> write_blocks, total_blocks |-> total_blocks,
      width |-> width] :
         read_blocks \in 0..MaxBlocks, write_blocks \in 0..MaxBlocks,
         total_blocks \in 0..MaxBlocks, width \in 0..MaxWidth}

\* Series of up to MaxLen of these values; charts of up to MaxChart
\* columns, and of one row, two rows, the eight rows display_stats asks
\* for, and MaxHeight rows.
LinePoints == {10, 20, 25, 32}
Series == UNION {[1..n -> LinePoints] : n \in 0..MaxLen}
Heights == {1, 2, 8, MaxHeight}
LineCalls ==
    {[fn |-> "create_line_graph", data |-> data, width |-> width,
      height |-> height] :
         data \in Series, width \in 0..MaxChart, height \in Heights}

\* Every terminal width from one column to MaxColumns.
WidthCalls ==
    {[fn |-> "get_dynamic_widths", terminal_width |-> w] :
         w \in 1..MaxColumns}

CallDerive ==
    /\ call.fn = "get_lvm_cache_stats"
    /\ ~ret.done
    /\ ret' = Returned(get_lvm_cache_stats("ok", call.raw).value)
    /\ UNCHANGED <<call, loopVars>>

CallBarGraph ==
    /\ call.fn = "create_bar_graph"
    /\ ~ret.done
    /\ ret' = Returned(create_bar_graph(call.value, call.max_value,
                                        call.width))
    /\ UNCHANGED <<call, loopVars>>

CallDualBar ==
    /\ call.fn = "create_dual_cache_bar"
    /\ ~ret.done
    /\ ret' = Returned(create_dual_cache_bar(call.read_blocks,
                           call.write_blocks, call.total_blocks, call.width))
    /\ UNCHANGED <<call, loopVars>>

CallWidths ==
    /\ call.fn = "get_dynamic_widths"
    /\ ~ret.done
    /\ ret' = Returned(get_dynamic_widths(call.terminal_width))
    /\ UNCHANGED <<call, loopVars>>

CallLineGraph ==
    /\ call.fn = "create_line_graph"
    /\ ~ret.done
    /\ ret' = Returned(create_line_graph(call.data, call.width, call.height))
    /\ UNCHANGED <<call, loopVars>>

FnNext ==
    \/ CallDerive
    \/ CallBarGraph
    \/ CallDualBar
    \/ CallWidths
    \/ CallLineGraph

----------------------------------------------------------------------------
(* The rolling histories *)

\* deque(maxlen = maxlen).append(x): a full deque drops its oldest element;
\* a deque of maxlen 0 stays empty.
DequeAppend_DropsNewest(d, x, maxlen) ==
    IF Len(d) >= maxlen THEN d ELSE Append(d, x)
DequeAppend(d, x, maxlen) ==
    IF maxlen = 0 THEN d
    ELSE IF Len(d) >= maxlen THEN Append(Tail(d), x)
    ELSE Append(d, x)

----------------------------------------------------------------------------
(* display_stats: the lines of a frame, one per print *)

\* height of create_line_graph (line 231)
Height == 8

ErrorFrame == <<"error", "hint">>

HeadLines ==
    <<"header", "separator", "blank",
      "stats_title", "pool", "usage", "reads", "writes", "dirty",
      "hit_ratio", "read_hits", "write_hits", "blank",
      "status_title", "dual_bar", "legend", "dirty_bar", "hit_bar",
      "read_hit_bar", "write_hit_bar", "blank">>

Chart(title, row, rule, caption) ==
    <<title>> \o Rep(row, Height) \o <<rule, caption>>

ChartLines_HitFirst ==
    <<"trends_title", "blank">>
    \o Chart("hit_chart", "hit_row", "hit_rule", "hit_caption")
    \o <<"blank">>
    \o Chart("usage_chart", "usage_row", "usage_rule", "usage_caption")
    \o <<"blank">>
    \o Chart("read_hit_chart", "read_hit_row", "read_hit_rule",
             "read_hit_caption")
    \o <<"blank">>
    \o Chart("write_hit_chart", "write_hit_row", "write_hit_rule",
             "write_hit_caption")
ChartLines ==
    <<"trends_title", "blank">>
    \o Chart("usage_chart", "usage_row", "usage_rule", "usage_caption")
    \o <<"blank">>
    \o Chart("hit_chart", "hit_row", "hit_rule", "hit_caption")
    \o <<"blank">>
    \o Chart("read_hit_chart", "read_hit_row", "read_hit_rule",
             "read_hit_caption")
    \o <<"blank">>
    \o Chart("write_hit_chart", "write_hit_row", "write_hit_rule",
             "write_hit_caption")

TailLines == <<"blank", "status">>

\* The lines display_stats prints for 'stats' when cache_usage_history
\* holds n values.
display_stats_NoHint(s, n) ==
    IF ~Truthy(s) THEN <<"error">>
    ELSE HeadLines \o (IF n > 1 THEN ChartLines ELSE <<>>) \o TailLines
display_stats(s, n) ==
    IF ~Truthy(s) THEN ErrorFrame
    ELSE HeadLines \o (IF n > 1 THEN ChartLines ELSE <<>>) \o TailLines

\* display_stats returns after the last print.
Returns_OneEarly(i, lines) == i >= Len(lines) - 1
Returns(i, lines) == i >= Len(lines)

----------------------------------------------------------------------------
(* run: the monitor loop *)

\* Samples the polls of the loop can return.
LoopSamples ==
    {RawSample(1000, 500, 50, 80, 20, 60, 40, 4096000),
     RawSample(0, 0, 0, 0, 0, 0, 0, 0),
     RawSample(4, 3, 1, 1, 1, 0, 1, 16384)}

Banner == <<"starting", "monitoring", "interval">>

histories == <<cache_usage_history, hit_ratio_history, dirty_ratio_history,
               read_hit_ratio_history, write_hit_ratio_history>>

\* Sizes of the terminal: the one the monitor is started in, and the one
\* the operator resizes it to.
StartColumns == MaxColumns - 2
LoopColumns == {StartColumns, MaxColumns}

\* The lines a bar, a chart row, an axis rule and a caption are printed on.
BarLines == {"dual_bar", "dirty_bar", "hit_bar", "read_hit_bar",
             "write_hit_bar"}
TitleLines == {"usage_chart", "hit_chart", "read_hit_chart",
               "write_hit_chart"}
RowLines == {"usage_row", "hit_row", "read_hit_row", "write_hit_row"}
RuleLines == {"usage_rule", "hit_rule", "read_hit_rule", "write_hit_rule"}
CaptionLines == {"usage_caption", "hit_caption", "read_hit_caption",
                 "write_hit_caption"}

\* After __init__ and the three prints of run(), inside time.sleep(2).
LoopInit ==
    /\ pc = "startup"
    /\ idx = 0
    /\ max_history \in 0..MaxHistory
    /\ cache_usage_history = <<>>
    /\ hit_ratio_history = <<>>
    /\ dirty_ratio_history = <<>>
    /\ read_hit_ratio_history = <<>>
    /\ write_hit_ratio_history = <<>>
    /\ stats = None
    /\ ticks = 0
    /\ arrived = <<>>
    /\ screen = Banner
    /\ frame = <<>>
    /\ interrupted = FALSE
    /\ interruptedAt = "none"
    /\ raised = "none"
    /\ exitCode = -1
    /\ columns = StartColumns
    /\ resized = FALSE
    /\ terminal_width = columns
    /\ widths = None
    /\ chart_lines = 0
    /\ graph_width = 0
    /\ drawn = <<>>

Init == LoopInit /\ FnIdle

\* time.sleep(2) of line 408 returns; the try block is entered.
StartupDone ==
    /\ pc = "startup"
    /\ pc' = "poll"
    /\ UNCHANGED <<idx, max_history, histories, stats, ticks, arrived,
                   screen, frame, interrupted, interruptedAt, raised,
                   exitCode, fnVars, layoutVars>>

\* stats = self.get_lvm_cache_stats(), line 412, and the test of line 414.
\* An exception other than KeyboardInterrupt is not caught by run() nor by
\* main(): the process ends with a traceback and status 1.
Poll ==
    /\ pc = "poll"
    /\ ticks < MaxTicks
    /\ \E outcome \in Outcomes, raw \in LoopSamples :
          LET r == get_lvm_cache_stats(outcome, raw)
          IN  IF r.raises # "none"
              THEN /\ pc' = "crashed"
                   /\ raised' = r.raises
                   /\ exitCode' = 1
                   /\ UNCHANGED <<idx, stats, arrived>>
              ELSE /\ stats' = r.value
                   /\ arrived' = IF Truthy(r.value)
                                 THEN Append(arrived, r.value) ELSE arrived
                   /\ pc' = IF Truthy(r.value) THEN "append" ELSE "display"
                   /\ idx' = 1
                   /\ UNCHANGED <<raised, exitCode>>
    /\ ticks' = ticks + 1
    /\ UNCHANGED <<max_history, histories, screen, frame, interrupted,
                   interruptedAt, fnVars, layoutVars>>

\* The five appends of lines 416-420, one per step.
AppendHistory ==
    /\ pc = "append"
    /\ cache_usage_history' =
          IF idx = 1 THEN DequeAppend(cache_usage_history,
                                      stats.cache_usage_pct, max_history)
                     ELSE cache_usage_history
    /\ hit_ratio_history' =
          IF idx = 2 THEN DequeAppend(hit_ratio_history,
                                      stats.hit_ratio_pct, max_history)
                     ELSE hit_ratio_history
    /\ dirty_ratio_history' =
          IF idx = 3 THEN DequeAppend(dirty_ratio_history,
                                      stats.dirty_ratio_pct, max_history)
                     ELSE dirty_ratio_history
    /\ read_hit_ratio_history' =
          IF idx = 4 THEN DequeAppend(read_hit_ratio_history,
                                      stats.read_hit_ratio_pct, max_history)
                     ELSE read_hit_ratio_history
    /\ write_hit_ratio_history' =
          IF idx = 5 THEN DequeAppend(write_hit_ratio_history,
                                      stats.write_hit_ratio_pct, max_history)
                     ELSE write_hit_ratio_history
    /\ IF idx = 5 THEN pc' = "display" /\ idx' = 1
                  ELSE pc' = "append" /\ idx' = idx + 1
    /\ UNCHANGED <<max_history, stats, ticks, arrived, screen, frame,
                   interrupted, interruptedAt, raised, exitCode, fnVars,
                   layoutVars>>

\* display_stats is entered (line 422): nothing of this frame is written
\* yet; for a sample, clear_screen() of line 292 empties the terminal and
\* get_dynamic_widths() of line 295 reads its size into 'widths'.
DisplayEnter ==
    /\ pc = "display"
    /\ frame' = <<>>
    /\ drawn' = <<>>
    /\ screen' = IF Truthy(stats) THEN <<>> ELSE screen
    /\ terminal_width' = IF Truthy(stats) THEN columns ELSE terminal_width
    /\ widths' = IF Truthy(stats) THEN get_dynamic_widths(columns) ELSE None
    /\ chart_lines' = 0
    /\ graph_width' = 0
    /\ pc' = "print"
    /\ idx' = 1
    /\ UNCHANGED <<max_history, histories, stats, ticks, arrived,
                   interrupted, interruptedAt, raised, exitCode, fnVars,
                   columns, resized>>

\* One print of display_stats, with the code since the print before it;
\* after the last one, time.sleep of line 423.  The bar of a bar line is
\* made just before it is printed, by create_dual_cache_bar or
\* create_bar_graph with width None (lines 329-354): each reads the size
\* of the terminal again (lines 184, 200).  The rows of a chart are made
\* by create_line_graph between the print of the title and that of the
\* first row, again with width None (lines 234, 365, 375, 384, 393);
\* 'graph_width' is the length of the first row of the first chart (line
\* 366) and is the length of every axis rule and caption.
PrintLine ==
    /\ pc = "print"
    /\ LET lines == display_stats(stats, Len(cache_usage_history))
           line == lines[idx]
           fresh == get_dynamic_widths(columns)
           first_row == line \in RowLines /\ lines[idx - 1] \in TitleLines
       IN  /\ frame' = Append(frame, line)
           /\ screen' = Append(screen, line)
           /\ terminal_width' =
                  IF line \in BarLines \/ first_row THEN columns
                  ELSE terminal_width
           /\ chart_lines' =
                  IF first_row THEN fresh.graph_width ELSE chart_lines
           /\ graph_width' =
                  IF first_row /\ line = "usage_row" THEN fresh.graph_width
                  ELSE graph_width
           /\ drawn' =
                  Append(drawn,
                         IF line \in BarLines THEN fresh.bar_width
                         ELSE IF line \in RowLines THEN chart_lines'
                         ELSE IF line \in RuleLines \cup CaptionLines
                              THEN graph_width
                         ELSE 0)
           /\ IF Returns(idx, lines)
              THEN pc' = "sleep" /\ idx' = 0
              ELSE pc' = "print" /\ idx' = idx + 1
    /\ UNCHANGED <<max_history, histories, stats, ticks, arrived,
                   interrupted, interruptedAt, raised, exitCode, fnVars,
                   columns, resized, widths>>

\* time.sleep(refresh_interval) returns; next iteration of while True.
Sleep ==
    /\ pc = "sleep"
    /\ pc' = "poll"
    /\ UNCHANGED <<idx, max_history, histories, stats, ticks, arrived,
                   screen, frame, interrupted, interruptedAt, raised,
                   exitCode, fnVars, layoutVars>>

InTry == {"poll", "append", "display", "print", "sleep"}

\* The operator's interrupt, delivered once: KeyboardInterrupt is raised
\* where the process is.  Inside the try block (lines 410-423) the handler of line 425 takes
\* it.  During time.sleep(2) of line 408, outside the try block, nothing
\* catches it: traceback, and the status of an uncaught KeyboardInterrupt
\* (1, or 130 when the interpreter re-raises SIGINT).
Interrupt ==
    /\ ~interrupted
    /\ pc \in InTry \cup {"startup"}
    /\ interrupted' = TRUE
    /\ interruptedAt' = pc
    /\ IF pc = "startup"
       THEN /\ pc' = "crashed"
            /\ raised' = "KeyboardInterrupt"
            /\ exitCode' \in {1, 130}
       ELSE /\ pc' = "except"
            /\ UNCHANGED <<raised, exitCode>>
    /\ UNCHANGED <<idx, max_history, histories, stats, ticks, arrived,
                   screen, frame, fnVars, layoutVars>>

\* print("Monitoring stopped."), line 426
PrintStopped ==
    /\ pc = "except"
    /\ screen' = Append(screen, "stopped")
    /\ pc' = "sys_exit"
    /\ UNCHANGED <<idx, max_history, histories, stats, ticks, arrived,
                   frame, interrupted, interruptedAt, raised, exitCode,
                   fnVars, layoutVars>>

\* sys.exit(0), line 427
SysExit ==
    /\ pc = "sys_exit"
    /\ pc' = "exited"
    /\ exitCode' = 0
    /\ UNCHANGED <<idx, max_history, histories, stats, ticks, arrived,
                   screen, frame, interrupted, interruptedAt, raised,
                   fnVars, layoutVars>>

\* The operator resizes the terminal, once, while the monitor runs.
Resize ==
    /\ pc \in InTry
    /\ ~resized
    /\ columns' \in LoopColumns \ {columns}
    /\ resized' = TRUE
    /\ UNCHANGED <<pc, idx, max_history, histories, stats, ticks, arrived,
                   screen, frame, interrupted, interruptedAt, raised,
                   exitCode, terminal_width, widths, chart_lines,
                   graph_width, drawn, fnVars>>

Next ==
    \/ StartupDone
    \/ Poll
    \/ AppendHistory
    \/ DisplayEnter
    \/ PrintLine
    \/ Sleep
    \/ Interrupt
    \/ PrintStopped
    \/ SysExit
    \/ Resize

Spec == Init /\ [][Next]_vars

\* The harness: one call, drawn from the inputs in bounds, then applied.
InitFn == /\ LoopInit
          /\ max_history = MaxHistory
          /\ call \in DeriveCalls \cup BarCalls \cup DualCalls
                     \cup WidthCalls \cup LineCalls
          /\ ret = NotReturned

SpecFn == InitFn /\ [][FnNext]_vars

----------------------------------------------------------------------------
(* Claims about the monitor loop, checked under Spec *)

LastN(seq, k) == SubSeq(seq, Len(seq) - k + 1, Len(seq))

IsPrefix(p, f) == Len(p) <= Len(f) /\ SubSeq(f, 1, Len(p)) = p

\* Between two ticks: not inside the five appends, not interrupted.
AtTickBoundary == pc \in {"startup", "poll", "display", "print", "sleep"}

\* C1: after the ticks done so far, of which n = Len(arrived) had a sample,
\* each of the five series holds exactly min(n, max_history) values: the
\* percentages of the last min(n, max_history) samples, oldest first.
C1_HistoriesHoldLastSamples ==
    AtTickBoundary =>
        LET k == Min(Len(arrived), max_history)
            last == LastN(arrived, k)
        IN  /\ Len(cache_usage_history) = k
            /\ Len(hit_ratio_history) = k
            /\ Len(dirty_ratio_history) = k
            /\ Len(read_hit_ratio_history) = k
            /\ Len(write_hit_ratio_history) = k
            /\ \A i \in 1..k :
                  /\ cache_usage_history[i] = last[i].cache_usage_pct
                  /\ hit_ratio_history[i] = last[i].hit_ratio_pct
                  /\ dirty_ratio_history[i] = last[i].dirty_ratio_pct
                  /\ read_hit_ratio_history[i] = last[i].read_hit_ratio_pct
                  /\ write_hit_ratio_history[i] = last[i].write_hit_ratio_pct

\* capacity + k samples arrived, and the oldest one is no longer stored
C1_Witness ==
    /\ pc = "sleep"
    /\ max_history >= 2
    /\ Len(arrived) > max_history
    /\ Len(cache_usage_history) = max_history
    /\ arrived[1].cache_usage_pct # arrived[2].cache_usage_pct
    /\ cache_usage_history[1] # cache_usage_history[2]
    /\ cache_usage_history[1] = arrived[Len(arrived) - max_history + 1].cache_usage_pct

\* C2: on a tick whose sample is unavailable no series changes, the frame
\* of the tick is the error text with the hint about the volume and sudo
\* privileges, and unless interrupted the loop goes on to the sleep and
\* from there to the next poll (a resize of the terminal leaves it where
\* it is).
C2_UnavailableTickIsSkipped ==
    /\ [][~Truthy(stats') => histories' = histories]_vars
    /\ []((pc = "sleep" /\ ~Truthy(stats)) => frame = <<"error", "hint">>)
    /\ [][(~Truthy(stats) /\ pc \in {"display", "print"} /\ ~interrupted')
             => (pc' \in {"print", "sleep"} \/ columns' # columns)]_vars
    /\ [][(~Truthy(stats) /\ pc = "sleep" /\ ~interrupted')
             => (pc' = "poll" \/ columns' # columns)]_vars

\* an unavailable tick after an available one
C2_Witness ==
    /\ pc = "sleep"
    /\ ~Truthy(stats)
    /\ Len(arrived) > 0
    /\ Len(cache_usage_history) > 0
    /\ frame = ErrorFrame

\* C3 as stated: whatever way a sample request fails the loop goes on; the
\* process only ever ends through the operator's interrupt.
C3_OnlyInterruptTerminates ==
    pc \in {"crashed", "exited"} => interrupted

\* C4 as stated: once an interrupt was delivered, the process ends with
\* 'Monitoring stopped.' printed and exit code 0.
C4_InterruptExitsCleanly ==
    (interrupted /\ pc \in {"crashed", "exited"})
        => /\ Len(screen) > 0
           /\ screen[Len(screen)] = "stopped"
           /\ exitCode = 0

CompleteFrames ==
    {ErrorFrame, HeadLines \o TailLines, HeadLines \o ChartLines \o TailLines}

\* C5 as stated: when the process exits on an interrupt, the last frame is
\* complete or was never started.
C5_NoPartialFrame ==
    pc = "exited" => (frame = <<>> \/ frame \in CompleteFrames)

\* C5 amended: when the process exits on an interrupt that arrived outside
\* the prints of display_stats (poll, appends, sleep), the last frame is
\* complete or was never started; an interrupt between two prints leaves
\* the lines printed so far, a prefix of the frame.
C5_PartialFrameOnlyWhenInterruptedInDisplay ==
    pc = "exited" =>
        /\ \E f \in CompleteFrames : IsPrefix(frame, f)
        /\ interruptedAt # "print"
              => (frame = <<>> \/ frame \in CompleteFrames)

C5_Witness ==
    /\ pc = "exited"
    /\ interruptedAt = "sleep"
    /\ frame = HeadLines \o ChartLines \o TailLines

----------------------------------------------------------------------------
(* Claims about the pure functions, checked under SpecFn *)

IsDerive == call.fn = "get_lvm_cache_stats" /\ ret.done
IsBar == call.fn = "create_bar_graph" /\ ret.done
IsDual == call.fn = "create_dual_cache_bar" /\ ret.done
IsWidths == call.fn = "get_dynamic_widths" /\ ret.done
IsLine == call.fn = "create_line_graph" /\ ret.done

\* C6 as stated: for every raw sample of non-negative counters each of the
\* five derived percentages lies in [0, 100].
C6_AllPercentagesInRange ==
    IsDerive =>
        /\ InRange0To100(ret.value.cache_usage_pct)
        /\ InRange0To100(ret.value.dirty_ratio_pct)
        /\ InRange0To100(ret.value.hit_ratio_pct)
        /\ InRange0To100(ret.value.read_hit_ratio_pct)
        /\ InRange0To100(ret.value.write_hit_ratio_pct)

\* C6 amended: the three hit ratios always lie in [0, 100]; cache_usage_pct
\* and dirty_ratio_pct are never negative, and are at most 100 exactly when
\* total_blocks = 0 or used_blocks (dirty_blocks) is at most total_blocks.
C6_RatiosInRangeUsageBoundedByTotal ==
    IsDerive =>
        /\ InRange0To100(ret.value.hit_ratio_pct)
        /\ InRange0To100(ret.value.read_hit_ratio_pct)
        /\ InRange0To100(ret.value.write_hit_ratio_pct)
        /\ FGeq(ret.value.cache_usage_pct, 0)
        /\ FGeq(ret.value.dirty_ratio_pct, 0)
        /\ InRange0To100(ret.value.cache_usage_pct)
              <=> (call.raw.total_blocks = 0
                      \/ call.raw.used_blocks <= call.raw.total_blocks)
        /\ InRange0To100(ret.value.dirty_ratio_pct)
              <=> (call.raw.total_blocks = 0
                      \/ call.raw.dirty_blocks <= call.raw.total_blocks)

C6_Witness ==
    /\ IsDerive
    /\ call.raw.total_blocks > 0
    /\ call.raw.used_blocks > call.raw.total_blocks
    /\ call.raw.read_hits > 0 /\ call.raw.read_misses > 0
    /\ call.raw.write_hits > 0
    /\ ~InRange0To100(ret.value.cache_usage_pct)
    /\ InRange0To100(ret.value.hit_ratio_pct)

C8_DualBarNeverOverruns ==
    IsDual =>
        /\ Count(ret.value, "read") + Count(ret.value, "write") <= call.width
        /\ Count(ret.value, "empty")
              = call.width - Count(ret.value, "read") - Count(ret.value, "write")

C10_ZeroDenominatorsYieldZero ==
    IsDerive =>
        LET raw == call.raw
            reads == raw.read_hits + raw.read_misses
            writes == raw.write_hits + raw.write_misses
        IN  /\ raw.total_blocks = 0
                  => /\ IsZero(ret.value.cache_usage_pct)
                     /\ IsZero(ret.value.dirty_ratio_pct)
                     /\ ret.value.block_size = 4096
            /\ reads + writes = 0 => IsZero(ret.value.hit_ratio_pct)
            /\ reads = 0 => IsZero(ret.value.read_hit_ratio_pct)
            /\ writes = 0 => IsZero(ret.value.write_hit_ratio_pct)
            /\ raw.total_blocks # 0
                  => ret.value.block_size
                        = raw.pool_size_bytes \div raw.total_blocks

C10_Witness ==
    /\ IsDerive
    /\ call.raw.total_blocks = 0
    /\ call.raw.used_blocks > 0
    /\ call.raw.read_hits + call.raw.read_misses = 0
    /\ call.raw.write_hits > 0
    /\ ret.value.block_size = 4096
    /\ IsZero(ret.value.cache_usage_pct)

\* C11: for every terminal width w, get_dynamic_widths returns
\* bar_width = max(20, w - 32) and graph_width = max(30, w - 12); neither is
\* below its minimum, 20 and 30; 80 columns give 48 and 68, 10 columns give
\* 20 and 30.
C11_WidthsFollowTerminalWidth ==
    IsWidths =>
        LET w == call.terminal_width
        IN  /\ ret.value.bar_width = (IF w - 32 > 20 THEN w - 32 ELSE 20)
            /\ ret.value.graph_width = (IF w - 12 > 30 THEN w - 12 ELSE 30)
            /\ ret.value.bar_width >= 20
            /\ ret.value.graph_width >= 30
            /\ w = 80 => ret.value.bar_width = 48
                          /\ ret.value.graph_width = 68
            /\ w = 10 => ret.value.bar_width = 20
                          /\ ret.value.graph_width = 30

\* a terminal narrower than both minimums
C11_Witness ==
    /\ IsWidths
    /\ call.terminal_width = 10
    /\ ret.value.bar_width = 20
    /\ ret.value.graph_width = 30

\* The glyphs of a chart: 'rows' is height rows of width cells, with a
\* glyph on the cells of 'glyphs' (row from 0 at the top, column from 1),
\* blank elsewhere.
HoldsOnly(rows, width, height, glyphs) ==
    /\ Len(rows) = height
    /\ \A r \in 1..height :
           /\ Len(rows[r]) = width
           /\ \A x \in 1..width :
                  rows[r][x] = "dot" <=> <<r - 1, x>> \in glyphs
                  /\ rows[r][x] \in {"dot", "blank"}

\* height rows without a glyph
BlankLines(rows, height) ==
    /\ Len(rows) = height
    /\ \A r \in 1..height :
           \A x \in 1..Len(rows[r]) : rows[r][x] = "blank"

Lowest(data) ==
    CHOOSE m \in {data[i] : i \in 1..Len(data)} :
        \A i \in 1..Len(data) : m <= data[i]
Highest(data) ==
    CHOOSE m \in {data[i] : i \in 1..Len(data)} :
        \A i \in 1..Len(data) : m >= data[i]

\* height - 1 - floor(steps / spread), clamped to [0, height - 1], for
\* steps = (v - min) * (height - 1) and spread = range
ExactRow(steps, spread, height) ==
    Max(0, Min(height - 1, height - 1 - steps \div spread))

C13_ScreenClearedBeforeEachFrame ==
    pc = "sleep" =>
        /\ frame = display_stats(stats, Len(cache_usage_history))
        /\ screen = frame

IsChartTitle(line) ==
    line \in {"usage_chart", "hit_chart", "read_hit_chart", "write_hit_chart"}
IsChartRow(line) ==
    line \in {"usage_row", "hit_row", "read_hit_row", "write_hit_row"}
ChartOrder == <<"usage_chart", "hit_chart", "read_hit_chart",
                "write_hit_chart">>

\* C14: a frame of metrics holds the four line charts, in the order cache
\* usage, hit ratio, read-hit ratio, write-hit ratio, exactly when the
\* history holds at least 2 samples as it is rendered: the frame of the
\* first available sample has none, every frame of metrics from the second
\* available sample on has all four when the capacity is at least 2, and
\* none ever has with a capacity below 2.
C14_ChartsFromSecondSample ==
    (pc = "sleep" /\ Truthy(stats)) =>
        LET titles == SelectSeq(frame, IsChartTitle)
            rows == SelectSeq(frame, IsChartRow)
        IN  /\ titles \in {<<>>, ChartOrder}
            /\ titles = ChartOrder <=> Len(cache_usage_history) >= 2
            /\ Len(rows) = Len(titles) * Height
            /\ Len(arrived) = 1 => titles = <<>>
            /\ (Len(arrived) >= 2 /\ max_history >= 2) => titles = ChartOrder
            /\ max_history <= 1 => titles = <<>>

\* the frame of the second available sample, with its four charts
C14_Witness ==
    /\ pc = "sleep"
    /\ Truthy(stats)
    /\ Len(arrived) = 2
    /\ max_history >= 2
    /\ SelectSeq(frame, IsChartTitle) = ChartOrder

\* C15 as stated: a frame is rendered from a single layout: its five bars
\* have one bar_width, its four charts and their axis rules one
\* graph_width, and these are the widths of the status line of that frame,
\* which prints 'widths', even when the terminal is resized while the frame
\* is being rendered.
C15_FrameHasSingleLayout ==
    \A i \in 1..Len(frame) :
        /\ frame[i] \in BarLines => drawn[i] = widths.bar_width
        /\ frame[i] \in RowLines \cup RuleLines
               => drawn[i] = widths.graph_width

====
